---- MODULE Spec2Model ----
(***************************************************************************)
(* A model of SMCKit's C core (Sources/SMC/smc.c, include/smc.h): the      *)
(* four-character codec, the transport call, the process-wide key-info     *)
(* cache with its mutex and pthread_once guard, and the operations          *)
(* SMCGetKeyInfo, SMCReadKey, SMCWriteKey, SMCGetKeyFromIndex and           *)
(* SMCCleanupCache, run by several threads.                                 *)
(*                                                                         *)
(* A UInt32 four-character code is represented as the pair                 *)
(* <<high 16 bits, low 16 bits>>, so that every 8-bit character fits in    *)
(* TLC's 32-bit integers.  A UInt32Char_t is the sequence of its 5 chars.   *)
(* A kern_return_t is named by its IOKit symbol.                            *)
(***************************************************************************)
EXTENDS Integers, Sequences, FiniteSets, TLC

\* ------------------------------------------------------------------ bounds
\* The most operations (public calls) the threads start in one run.
MaxOps == 3

\* ------------------------------------------------------- program constants
SMC_CMD_READ_KEY == 5
SMC_CMD_WRITE_KEY == 6
SMC_CMD_GET_KEY_FROM_INDEX == 8
SMC_CMD_READ_KEY_INFO == 9

kSMCReturnSuccess == 0
kSMCReturnError == 1
kSMCReturnKeyNotFound == 132
kSMCReturnDataTypeMismatch == 140

\* sizeof(SMCBytes_t)
SMCBytesLen == 32

kIOReturnSuccess == "kIOReturnSuccess"
kIOReturnBadArgument == "kIOReturnBadArgument"
kIOReturnNotPrivileged == "kIOReturnNotPrivileged"

NULL == "NULL"
\* A null UInt32Char_t pointer
NullText == <<>>

\* ------------------------------------------------------------------- codec
\* A faulty variant of FourCharCodeFromString: the four characters packed
\* little-endian (first character in the least significant byte).
FourCharCodeLittleEndian(str) ==
    IF str = NullText THEN <<0, 0>>
    ELSE <<str[4] * 256 + str[3], str[2] * 256 + str[1]>>

\* chars[0] << 24 | chars[1] << 16 | chars[2] << 8 | chars[3]; the fields
\* are disjoint, so each | is a sum.  NULL gives the zero code.
FourCharCodeFromString(str) ==
    IF str = NullText THEN <<0, 0>>
    ELSE <<str[1] * 256 + str[2], str[3] * 256 + str[4]>>

\* (code >> 24) & 0xFF, (code >> 16) & 0xFF, (code >> 8) & 0xFF,
\* code & 0xFF, then the terminator.
StringFromFourCharCode(code) ==
    << (code[1] \div 256) % 256, code[1] % 256,
       (code[2] \div 256) % 256, code[2] % 256, 0 >>

\* ------------------------------------------------------------ value spaces
Threads == {"t1", "t2"}

\* "TC0P" and "F0Ac"
TextTC0P == <<84, 67, 48, 80, 0>>
TextF0Ac == <<70, 48, 65, 99, 0>>
KeyTexts == {TextTC0P, TextF0Ac}
KeyCodes == {FourCharCodeFromString(s) : s \in KeyTexts}

\* "flt " and "ui8 "
TextFlt == <<102, 108, 116, 32, 0>>
TextUi8 == <<117, 105, 56, 32, 0>>

\* memset(.., 0, ..) of a UInt32Char_t and of an SMCBytes_t
ZeroText == <<0, 0, 0, 0, 0>>
ZeroBytes == [i \in 1..SMCBytesLen |-> 0]
SomeBytes == [i \in 1..SMCBytesLen |-> i]
ByteBufs == {ZeroBytes, SomeBytes}

\* SMCKeyData_keyInfo_t values the controller may report.  The transport is
\* opaque: nothing bounds the dataSize it reports by the buffer capacity.
ZeroKeyInfo == [dataSize |-> 0, dataType |-> <<0, 0>>, dataAttributes |-> 0]
KeyInfos ==
    { [dataSize |-> 4, dataType |-> FourCharCodeFromString(TextFlt), dataAttributes |-> 0],
      [dataSize |-> SMCBytesLen + 1, dataType |-> FourCharCodeFromString(TextUi8),
       dataAttributes |-> 1] }

KernResults == {kIOReturnSuccess, kIOReturnNotPrivileged}
SmcResults == {kSMCReturnSuccess, kSMCReturnKeyNotFound}

\* A faulty variant of InitialResult: result starts out as success.
InitialResultSuccess ==
    [kern_res |-> kIOReturnSuccess, smc_res |-> kSMCReturnSuccess]

\* SMCResult_t result = {kIOReturnBadArgument, kSMCReturnError};
InitialResult == [kern_res |-> kIOReturnBadArgument, smc_res |-> kSMCReturnError]
SuccessResult == [kern_res |-> kIOReturnSuccess, smc_res |-> kSMCReturnSuccess]

\* A faulty variant of Failed: only the transport status is looked at, the
\* protocol result byte is ignored.
FailedKernOnly(result) == result.kern_res # kIOReturnSuccess

\* result.kern_res != kIOReturnSuccess || result.smc_res != kSMCReturnSuccess
Failed(result) ==
    result.kern_res # kIOReturnSuccess \/ result.smc_res # kSMCReturnSuccess

\* An SMCVal_t
ZeroVal == [key |-> ZeroText, dataSize |-> 0, dataType |-> ZeroText, bytes |-> ZeroBytes]
WriteVals ==
    { [key |-> TextTC0P, dataSize |-> 4, dataType |-> TextFlt, bytes |-> SomeBytes],
      [key |-> TextTC0P, dataSize |-> 4, dataType |-> TextUi8, bytes |-> SomeBytes],
      [key |-> TextTC0P, dataSize |-> 1, dataType |-> TextFlt, bytes |-> SomeBytes] }

\* The request an operation hands to SMCCall: the fields of inputStructure
\* the operations set (the rest stay zero from memset).
Request(key, data8, data32, dataSize, bytes) ==
    [key |-> key, data8 |-> data8, data32 |-> data32, dataSize |-> dataSize,
     bytes |-> bytes]

\* ---------------------------------------------------------------- transport
\* SMCCall: one IOConnectCallStructMethod exchange.  The transport is an
\* external collaborator: any status may come back, with any content in the
\* fields of outputStructure that the command fills (key info for "read key
\* info", the key for "get key at index", the bytes for "read key"), the
\* other fields staying zero from the caller's memset.
SMCCall(request) ==
    [ kern_res : KernResults,
      result   : SmcResults,
      keyInfo  : IF request.data8 = SMC_CMD_READ_KEY_INFO THEN KeyInfos
                 ELSE {ZeroKeyInfo},
      key      : IF request.data8 = SMC_CMD_GET_KEY_FROM_INDEX THEN KeyCodes
                 ELSE {<<0, 0>>},
      bytes    : IF request.data8 = SMC_CMD_READ_KEY THEN ByteBufs
                 ELSE {ZeroBytes} ]

\* -------------------------------------------------------------------- state
VARIABLES
    g_keyInfoCache,      \* NULL, or "map": the pointer to the allocated map
    entries,             \* the map's content: a function KeyCode -> keyInfo
    g_keyInfoCacheLock,  \* NULL, or the thread holding the mutex
    g_cacheInitOnce,     \* pthread_once_t: "init", "running", "done"
    crashed,             \* the process was killed by a fault
    pc,                  \* each thread's position
    op,                  \* the public operation each thread is in, or NULL
    key,                 \* UInt32Char_t *key of SMCReadKey / SMCGetKeyFromIndex
    keyCode,             \* UInt32 key of SMCGetKeyInfo (keyCode of its caller)
    keyInfo,             \* *keyInfo of SMCGetKeyInfo
    result,              \* SMCResult_t result
    val,                 \* SMCVal_t *val
    index,               \* UInt32 index of SMCGetKeyFromIndex
    calls,               \* the requests this invocation handed to SMCCall
    nOps,                \* operations started so far
    firstInsert,         \* history: per key, the first value inserted into
                         \* the present map
    cachedAtStart,       \* history: the key's entry when the invocation began
                         \* (a set: empty if none or if the cache was reset since)
    nullArg,             \* history: the invocation was given a null pointer
    infoResult,          \* history: what SMCGetKeyInfo returned to SMCReadKey or
                         \* SMCWriteKey in this invocation (a set: empty before)
    lastOutput,          \* history: the response (status and outputStructure) of
                         \* the invocation's latest SMCCall (a set: empty before)
    keyBefore,           \* history: the caller's *key as it was when
                         \* SMCGetKeyFromIndex was called
    nInit,               \* history: how often init_cache has run (maps created)
    nDestroy,            \* history: how often mapKeyInfo_destroy has run
    answered             \* history: the <<key, keyInfo>> of every "read key info"
                         \* response that succeeded at both levels

shared == <<g_keyInfoCache, entries, g_keyInfoCacheLock, g_cacheInitOnce, crashed>>
locals == <<pc, op, key, keyCode, keyInfo, result, val, index, calls>>
history == <<nOps, firstInsert, cachedAtStart, nullArg, infoResult>>
perCall == <<lastOutput, keyBefore>>
lifetime == <<nInit, nDestroy, answered>>
vars == <<shared, locals, history, perCall, lifetime>>

EmptyMap == [k \in {} |-> ZeroKeyInfo]

Init ==
    /\ g_keyInfoCache = NULL
    /\ entries = EmptyMap
    /\ g_keyInfoCacheLock = NULL
    /\ g_cacheInitOnce = "init"
    /\ crashed = FALSE
    /\ pc = [t \in Threads |-> "idle"]
    /\ op = [t \in Threads |-> NULL]
    /\ key = [t \in Threads |-> NullText]
    /\ keyCode = [t \in Threads |-> <<0, 0>>]
    /\ keyInfo = [t \in Threads |-> ZeroKeyInfo]
    /\ result = [t \in Threads |-> InitialResult]
    /\ val = [t \in Threads |-> ZeroVal]
    /\ index = [t \in Threads |-> 0]
    /\ calls = [t \in Threads |-> <<>>]
    /\ nOps = 0
    /\ firstInsert = EmptyMap
    /\ cachedAtStart = [t \in Threads |-> {}]
    /\ nullArg = [t \in Threads |-> FALSE]
    /\ infoResult = [t \in Threads |-> {}]
    /\ lastOutput = [t \in Threads |-> {}]
    /\ keyBefore = [t \in Threads |-> NullText]
    /\ nInit = 0
    /\ nDestroy = 0
    /\ answered = {}

\* The entry of key k the history holds, as a set.
EntryAtStart(k) == IF k \in DOMAIN firstInsert THEN {firstInsert[k]} ELSE {}

\* ------------------------------------------------------------ cache helpers
\* A faulty variant of CacheHit: the lookup never finds the key.
CacheHitNever(map, k) == FALSE

\* k != kh_end(g_keyInfoCache) after k = mapKeyInfo_get(g_keyInfoCache, key)
CacheHit(map, k) == k \in DOMAIN map

\* A faulty variant of CachePut: the value is stored whether or not the key was
\* absent (a plain put instead of insert-if-absent).
CachePutOverwrite(map, k, info) ==
    [x \in DOMAIN map \cup {k} |-> IF x = k THEN info ELSE map[x]]

\* k = mapKeyInfo_put(g_keyInfoCache, key, &absent);
\* if (absent) kh_val(g_keyInfoCache, k) = outputStructure.keyInfo;
CachePut(map, k, info) ==
    IF k \in DOMAIN map THEN map
    ELSE [x \in DOMAIN map \cup {k} |-> IF x = k THEN info ELSE map[x]]

\* Where SMCGetKeyInfo returns to: its caller's next statement.
GkiReturnPc(t) ==
    CASE op[t] = "SMCReadKey" -> "rk_info"
      [] op[t] = "SMCWriteKey" -> "wk_info"
      [] OTHER -> "done"

\* --------------------------------------------------------- SMCGetKeyInfo
\* A caller invokes SMCGetKeyInfo(key, keyInfo, conn): the null check of
\* keyInfo, then on to pthread_once.
CallGetKeyInfo(t) ==
    /\ ~crashed /\ pc[t] = "idle" /\ nOps < MaxOps
    /\ UNCHANGED lifetime
    /\ UNCHANGED perCall
    /\ \E k \in KeyCodes, isNull \in BOOLEAN :
         /\ op' = [op EXCEPT ![t] = "SMCGetKeyInfo"]
         /\ keyCode' = [keyCode EXCEPT ![t] = k]
         /\ result' = [result EXCEPT ![t] = InitialResult]
         /\ nullArg' = [nullArg EXCEPT ![t] = isNull]
         /\ IF isNull
              THEN /\ pc' = [pc EXCEPT ![t] = "done"]
                   /\ UNCHANGED cachedAtStart
              ELSE /\ pc' = [pc EXCEPT ![t] = "gki_once"]
                   /\ cachedAtStart' = [cachedAtStart EXCEPT ![t] = EntryAtStart(k)]
    /\ nOps' = nOps + 1
    /\ UNCHANGED <<shared, key, keyInfo, val, index, calls, firstInsert, infoResult>>

\* A faulty variant of PthreadOnce: an unguarded "create the map if there is
\* none" in place of the one-time guard.
PthreadOnceUnguarded(t) ==
    /\ ~crashed /\ pc[t] = "gki_once"
    /\ IF g_keyInfoCache = NULL
         THEN /\ g_cacheInitOnce' = "running"
              /\ pc' = [pc EXCEPT ![t] = "gki_init"]
         ELSE /\ UNCHANGED g_cacheInitOnce
              /\ pc' = [pc EXCEPT ![t] = "gki_lock1"]
    /\ UNCHANGED <<g_keyInfoCache, entries, g_keyInfoCacheLock, crashed,
                   op, key, keyCode, keyInfo, result, val, index, calls,
                   history, perCall, lifetime>>

\* pthread_once(&g_cacheInitOnce, init_cache): the first caller runs the
\* initialiser, callers arriving while it runs wait, later callers pass.
PthreadOnce(t) ==
    /\ ~crashed /\ pc[t] = "gki_once"
    /\ UNCHANGED lifetime
    /\ UNCHANGED perCall
    /\ \/ /\ g_cacheInitOnce = "init"
          /\ g_cacheInitOnce' = "running"
          /\ pc' = [pc EXCEPT ![t] = "gki_init"]
       \/ /\ g_cacheInitOnce = "done"
          /\ UNCHANGED g_cacheInitOnce
          /\ pc' = [pc EXCEPT ![t] = "gki_lock1"]
    /\ UNCHANGED <<g_keyInfoCache, entries, g_keyInfoCacheLock, crashed,
                   op, key, keyCode, keyInfo, result, val, index, calls, history>>

\* g_keyInfoCache = mapKeyInfo_init(), run inside pthread_once (without the
\* mutex); the guard is complete when it returns.
init_cache(t) ==
    /\ ~crashed /\ pc[t] = "gki_init"
    /\ UNCHANGED perCall
    /\ g_keyInfoCache' = "map"
    /\ entries' = EmptyMap
    /\ g_cacheInitOnce' = "done"
    /\ nInit' = nInit + 1
    /\ UNCHANGED <<nDestroy, answered>>
    /\ pc' = [pc EXCEPT ![t] = "gki_lock1"]
    /\ UNCHANGED <<g_keyInfoCacheLock, crashed,
                   op, key, keyCode, keyInfo, result, val, index, calls, history>>

\* pthread_mutex_lock(&g_keyInfoCacheLock) before the lookup
LockForGet(t) ==
    /\ ~crashed /\ pc[t] = "gki_lock1"
    /\ UNCHANGED lifetime
    /\ UNCHANGED perCall
    /\ g_keyInfoCacheLock = NULL
    /\ g_keyInfoCacheLock' = t
    /\ pc' = [pc EXCEPT ![t] = "gki_get"]
    /\ UNCHANGED <<g_keyInfoCache, entries, g_cacheInitOnce, crashed,
                   op, key, keyCode, keyInfo, result, val, index, calls, history>>

\* A faulty variant of UnlockOnMiss: the miss path forgets the unlock and
\* the thread keeps the mutex.
UnlockOnMissForgotten(t) == t

\* pthread_mutex_unlock(&g_keyInfoCacheLock) on the miss path, before the
\* transport query: the mutex is free again.
UnlockOnMiss(t) == NULL

\* mapKeyInfo_get, the hit branch (copy, unlock, synthesized success) and
\* the miss branch (unlock).  With g_keyInfoCache == NULL the lookup
\* dereferences a null pointer: the process faults, or the read yields
\* garbage (a miss, or a hit with arbitrary metadata).
CacheGet(t) ==
    /\ ~crashed /\ pc[t] = "gki_get"
    /\ UNCHANGED lifetime
    /\ UNCHANGED perCall
    /\ IF g_keyInfoCache = NULL
         THEN \/ /\ crashed' = TRUE
                 /\ UNCHANGED <<g_keyInfoCacheLock, pc, keyInfo, result>>
              \/ /\ g_keyInfoCacheLock' = NULL
                 /\ pc' = [pc EXCEPT ![t] = "gki_call"]
                 /\ UNCHANGED <<crashed, keyInfo, result>>
              \/ \E garbage \in KeyInfos :
                   /\ keyInfo' = [keyInfo EXCEPT ![t] = garbage]
                   /\ g_keyInfoCacheLock' = NULL
                   /\ result' = [result EXCEPT ![t] = SuccessResult]
                   /\ pc' = [pc EXCEPT ![t] = GkiReturnPc(t)]
                   /\ UNCHANGED crashed
         ELSE IF CacheHit(entries, keyCode[t])
           THEN /\ keyInfo' = [keyInfo EXCEPT ![t] = entries[keyCode[t]]]
                /\ g_keyInfoCacheLock' = NULL
                /\ result' = [result EXCEPT ![t] = SuccessResult]
                /\ pc' = [pc EXCEPT ![t] = GkiReturnPc(t)]
                /\ UNCHANGED crashed
           ELSE /\ g_keyInfoCacheLock' = UnlockOnMiss(t)
                /\ pc' = [pc EXCEPT ![t] = "gki_call"]
                /\ UNCHANGED <<crashed, keyInfo, result>>
    /\ UNCHANGED <<g_keyInfoCache, entries, g_cacheInitOnce,
                   op, key, keyCode, val, index, calls, history>>

\* A faulty variant of InfoFailurePc: a failed query is issued again.
InfoFailureRetryPc(t) == "gki_call"

\* if (failed) return result;  -- a failed query is not retried.
InfoFailurePc(t) == GkiReturnPc(t)

\* The "read key info" transport call and the check of its two statuses;
\* on success *keyInfo = outputStructure.keyInfo.
InfoCall(t) ==
    /\ ~crashed /\ pc[t] = "gki_call"
    /\ UNCHANGED keyBefore
    /\ LET request == Request(keyCode[t], SMC_CMD_READ_KEY_INFO, 0, 0, ZeroBytes) IN
       \E out \in SMCCall(request) :
         LET res == [kern_res |-> out.kern_res, smc_res |-> out.result] IN
         /\ lastOutput' = [lastOutput EXCEPT ![t] = {out}]
         /\ calls' = [calls EXCEPT ![t] = Append(@, request)]
         /\ result' = [result EXCEPT ![t] = res]
         /\ IF Failed(res)
              THEN /\ pc' = [pc EXCEPT ![t] = InfoFailurePc(t)]
                   /\ UNCHANGED keyInfo
              ELSE /\ pc' = [pc EXCEPT ![t] = "gki_lock2"]
                   /\ keyInfo' = [keyInfo EXCEPT ![t] = out.keyInfo]
         /\ answered' =
              IF out.kern_res = kIOReturnSuccess /\ out.result = kSMCReturnSuccess
                THEN answered \cup {<<keyCode[t], out.keyInfo>>}
                ELSE answered
    /\ UNCHANGED <<nInit, nDestroy>>
    /\ UNCHANGED <<shared, op, key, keyCode, val, index, history>>

\* pthread_mutex_lock(&g_keyInfoCacheLock) before the insert
LockForPut(t) ==
    /\ ~crashed /\ pc[t] = "gki_lock2"
    /\ UNCHANGED lifetime
    /\ UNCHANGED perCall
    /\ g_keyInfoCacheLock = NULL
    /\ g_keyInfoCacheLock' = t
    /\ pc' = [pc EXCEPT ![t] = "gki_put"]
    /\ UNCHANGED <<g_keyInfoCache, entries, g_cacheInitOnce, crashed,
                   op, key, keyCode, keyInfo, result, val, index, calls, history>>

\* mapKeyInfo_put with insert-if-absent, unlock, return result.  With
\* g_keyInfoCache == NULL the put dereferences a null pointer: the process
\* faults, or the store is lost.
CacheInsert(t) ==
    /\ ~crashed /\ pc[t] = "gki_put"
    /\ UNCHANGED lifetime
    /\ UNCHANGED perCall
    /\ IF g_keyInfoCache = NULL
         THEN \/ /\ crashed' = TRUE
                 /\ UNCHANGED <<g_keyInfoCacheLock, pc, entries, firstInsert>>
              \/ /\ g_keyInfoCacheLock' = NULL
                 /\ pc' = [pc EXCEPT ![t] = GkiReturnPc(t)]
                 /\ UNCHANGED <<crashed, entries, firstInsert>>
         ELSE /\ entries' = CachePut(entries, keyCode[t], keyInfo[t])
              /\ firstInsert' =
                   IF keyCode[t] \in DOMAIN firstInsert THEN firstInsert
                   ELSE [x \in DOMAIN firstInsert \cup {keyCode[t]} |->
                           IF x = keyCode[t] THEN keyInfo[t] ELSE firstInsert[x]]
              /\ g_keyInfoCacheLock' = NULL
              /\ pc' = [pc EXCEPT ![t] = GkiReturnPc(t)]
              /\ UNCHANGED crashed
    /\ UNCHANGED <<g_keyInfoCache, g_cacheInitOnce,
                   op, key, keyCode, keyInfo, result, val, index, calls,
                   nOps, cachedAtStart, nullArg, infoResult>>

\* ------------------------------------------------------------ SMCReadKey
\* A faulty variant of ReadKeyBytes: the response buffer is copied whatever the
\* status of the read call.
ReadKeyBytesAlways(v, out, res) == out.bytes

\* memcpy(val->bytes, outputStructure.bytes, sizeof(outputStructure.bytes)),
\* reached only when the read call succeeded at both levels.
ReadKeyBytes(v, out, res) == IF Failed(res) THEN v.bytes ELSE out.bytes

\* A caller invokes SMCReadKey(key, val, conn): the null checks, the memsets,
\* the key code, val->key, and the call of SMCGetKeyInfo.
CallReadKey(t) ==
    /\ ~crashed /\ pc[t] = "idle" /\ nOps < MaxOps
    /\ UNCHANGED lifetime
    /\ UNCHANGED perCall
    /\ \E k \in KeyTexts, nullKey \in BOOLEAN, nullVal \in BOOLEAN :
         /\ op' = [op EXCEPT ![t] = "SMCReadKey"]
         /\ result' = [result EXCEPT ![t] = InitialResult]
         /\ nullArg' = [nullArg EXCEPT ![t] = nullKey \/ nullVal]
         /\ key' = [key EXCEPT ![t] = IF nullKey THEN NullText ELSE k]
         /\ IF nullKey \/ nullVal
              THEN /\ pc' = [pc EXCEPT ![t] = "done"]
                   /\ UNCHANGED <<keyCode, val, cachedAtStart>>
              ELSE LET code == FourCharCodeFromString(k) IN
                   /\ keyCode' = [keyCode EXCEPT ![t] = code]
                   /\ val' = [val EXCEPT ![t] =
                                [ZeroVal EXCEPT !.key = StringFromFourCharCode(code)]]
                   /\ cachedAtStart' = [cachedAtStart EXCEPT ![t] = EntryAtStart(code)]
                   /\ pc' = [pc EXCEPT ![t] = "gki_once"]
    /\ nOps' = nOps + 1
    /\ UNCHANGED <<shared, keyInfo, index, calls, firstInsert, infoResult>>

\* SMCGetKeyInfo has returned to SMCReadKey: return its failure, or set
\* val->dataSize and val->dataType from the metadata.
ReadKeyAfterInfo(t) ==
    /\ ~crashed /\ pc[t] = "rk_info"
    /\ UNCHANGED lifetime
    /\ UNCHANGED perCall
    /\ infoResult' = [infoResult EXCEPT ![t] = {result[t]}]
    /\ IF Failed(result[t])
         THEN /\ pc' = [pc EXCEPT ![t] = "done"]
              /\ UNCHANGED val
         ELSE /\ val' = [val EXCEPT ![t].dataSize = keyInfo[t].dataSize,
                                    ![t].dataType = StringFromFourCharCode(keyInfo[t].dataType)]
              /\ pc' = [pc EXCEPT ![t] = "rk_call"]
    /\ UNCHANGED <<shared, op, key, keyCode, keyInfo, result, index, calls,
                   nOps, firstInsert, cachedAtStart, nullArg>>

\* The "read key" transport call, the check of its statuses, the copy of
\* the byte buffer, return result.
ReadCall(t) ==
    /\ ~crashed /\ pc[t] = "rk_call"
    /\ UNCHANGED lifetime
    /\ UNCHANGED keyBefore
    /\ LET request == Request(keyCode[t], SMC_CMD_READ_KEY, 0, val[t].dataSize, ZeroBytes) IN
       \E out \in SMCCall(request) :
         LET res == [kern_res |-> out.kern_res, smc_res |-> out.result] IN
         /\ lastOutput' = [lastOutput EXCEPT ![t] = {out}]
         /\ calls' = [calls EXCEPT ![t] = Append(@, request)]
         /\ result' = [result EXCEPT ![t] = res]
         /\ val' = [val EXCEPT ![t].bytes = ReadKeyBytes(val[t], out, res)]
    /\ pc' = [pc EXCEPT ![t] = "done"]
    /\ UNCHANGED <<shared, op, key, keyCode, keyInfo, index, history>>

\* ----------------------------------------------------------- SMCWriteKey
\* A faulty variant of Mismatch: only the sizes are compared.
MismatchSizeOnly(keyData, v) == keyData.dataSize # v.dataSize

\* keyData.dataSize != val->dataSize ||
\* keyData.dataType != FourCharCodeFromString(&val->dataType)
Mismatch(keyData, v) ==
    \/ keyData.dataSize # v.dataSize
    \/ keyData.dataType # FourCharCodeFromString(v.dataType)

\* A caller invokes SMCWriteKey(val, conn): the null check, the key code and
\* the call of SMCGetKeyInfo.  keyData is not initialised; it is read only
\* after SMCGetKeyInfo has written it.
CallWriteKey(t) ==
    /\ ~crashed /\ pc[t] = "idle" /\ nOps < MaxOps
    /\ UNCHANGED lifetime
    /\ UNCHANGED perCall
    /\ \E v \in WriteVals, isNull \in BOOLEAN :
         /\ op' = [op EXCEPT ![t] = "SMCWriteKey"]
         /\ result' = [result EXCEPT ![t] = InitialResult]
         /\ nullArg' = [nullArg EXCEPT ![t] = isNull]
         /\ IF isNull
              THEN /\ pc' = [pc EXCEPT ![t] = "done"]
                   /\ UNCHANGED <<keyCode, val, cachedAtStart>>
              ELSE LET code == FourCharCodeFromString(v.key) IN
                   /\ val' = [val EXCEPT ![t] = v]
                   /\ keyCode' = [keyCode EXCEPT ![t] = code]
                   /\ cachedAtStart' = [cachedAtStart EXCEPT ![t] = EntryAtStart(code)]
                   /\ pc' = [pc EXCEPT ![t] = "gki_once"]
    /\ nOps' = nOps + 1
    /\ UNCHANGED <<shared, key, keyInfo, index, calls, firstInsert, infoResult>>

\* SMCGetKeyInfo has returned to SMCWriteKey: return its failure, reject a
\* size or type mismatch, or go on to the write call.
WriteKeyAfterInfo(t) ==
    /\ ~crashed /\ pc[t] = "wk_info"
    /\ UNCHANGED lifetime
    /\ UNCHANGED perCall
    /\ infoResult' = [infoResult EXCEPT ![t] = {result[t]}]
    /\ IF Failed(result[t])
         THEN /\ pc' = [pc EXCEPT ![t] = "done"]
              /\ UNCHANGED result
         ELSE IF Mismatch(keyInfo[t], val[t])
           THEN /\ result' = [result EXCEPT ![t] =
                                [kern_res |-> kIOReturnBadArgument,
                                 smc_res |-> kSMCReturnDataTypeMismatch]]
                /\ pc' = [pc EXCEPT ![t] = "done"]
           ELSE /\ pc' = [pc EXCEPT ![t] = "wk_call"]
                /\ UNCHANGED result
    /\ UNCHANGED <<shared, op, key, keyCode, keyInfo, val, index, calls,
                   nOps, firstInsert, cachedAtStart, nullArg>>

\* A faulty variant of WriteRequest: the memcpy of the value's bytes is
\* missing and the request carries the zeroed buffer.
WriteRequestNoBytes(code, v) ==
    Request(code, SMC_CMD_WRITE_KEY, 0, v.dataSize, ZeroBytes)

\* inputStructure of the write: key, data8, keyInfo.dataSize and the
\* memcpy of val->bytes into inputStructure.bytes.
WriteRequest(code, v) ==
    Request(code, SMC_CMD_WRITE_KEY, 0, v.dataSize, v.bytes)

\* The "write key" transport call; its statuses are the result.
WriteCall(t) ==
    /\ ~crashed /\ pc[t] = "wk_call"
    /\ UNCHANGED lifetime
    /\ UNCHANGED keyBefore
    /\ LET request == WriteRequest(keyCode[t], val[t]) IN
       \E out \in SMCCall(request) :
         /\ lastOutput' = [lastOutput EXCEPT ![t] = {out}]
         /\ calls' = [calls EXCEPT ![t] = Append(@, request)]
         /\ result' = [result EXCEPT ![t] =
                         [kern_res |-> out.kern_res, smc_res |-> out.result]]
    /\ pc' = [pc EXCEPT ![t] = "done"]
    /\ UNCHANGED <<shared, op, key, keyCode, keyInfo, val, index, history>>

\* ---------------------------------------------------- SMCGetKeyFromIndex
Indexes == {0, 1}

\* A faulty variant of IndexKeyOut: the identifier of the response is
\* decoded into *key before the statuses are looked at.
IndexKeyOutAlways(before, out, res) == StringFromFourCharCode(out.key)

\* StringFromFourCharCode(outputStructure.key, key), reached only when the
\* call succeeded at both levels; otherwise *key is not written.
IndexKeyOut(before, out, res) ==
    IF Failed(res) THEN before ELSE StringFromFourCharCode(out.key)

\* A caller invokes SMCGetKeyFromIndex(index, key, conn) with an output
\* buffer holding some earlier text: the null check.
CallGetKeyFromIndex(t) ==
    /\ ~crashed /\ pc[t] = "idle" /\ nOps < MaxOps
    /\ UNCHANGED lifetime
    /\ UNCHANGED lastOutput
    /\ \E i \in Indexes, before \in {TextF0Ac}, isNull \in BOOLEAN :
         /\ keyBefore' = [keyBefore EXCEPT ![t] = IF isNull THEN NullText ELSE before]
         /\ op' = [op EXCEPT ![t] = "SMCGetKeyFromIndex"]
         /\ result' = [result EXCEPT ![t] = InitialResult]
         /\ nullArg' = [nullArg EXCEPT ![t] = isNull]
         /\ index' = [index EXCEPT ![t] = i]
         /\ key' = [key EXCEPT ![t] = IF isNull THEN NullText ELSE before]
         /\ pc' = [pc EXCEPT ![t] = IF isNull THEN "done" ELSE "gkfi_call"]
    /\ nOps' = nOps + 1
    /\ UNCHANGED <<shared, keyCode, keyInfo, val, calls, firstInsert,
                   cachedAtStart, infoResult>>

\* The "get key at index" transport call; on success the returned
\* identifier is decoded into *key.
IndexCall(t) ==
    /\ ~crashed /\ pc[t] = "gkfi_call"
    /\ UNCHANGED lifetime
    /\ UNCHANGED keyBefore
    /\ LET request == Request(<<0, 0>>, SMC_CMD_GET_KEY_FROM_INDEX, index[t], 0,
                              ZeroBytes) IN
       \E out \in SMCCall(request) :
         LET res == [kern_res |-> out.kern_res, smc_res |-> out.result] IN
         /\ lastOutput' = [lastOutput EXCEPT ![t] = {out}]
         /\ calls' = [calls EXCEPT ![t] = Append(@, request)]
         /\ result' = [result EXCEPT ![t] = res]
         /\ key' = [key EXCEPT ![t] = IndexKeyOut(key[t], out, res)]
    /\ pc' = [pc EXCEPT ![t] = "done"]
    /\ UNCHANGED <<shared, op, keyCode, keyInfo, val, index, history>>

\* ------------------------------------------------------- SMCCleanupCache
\* A caller invokes SMCCleanupCache(), which goes for the mutex.
CallCleanupCache(t) ==
    /\ ~crashed /\ pc[t] = "idle" /\ nOps < MaxOps
    /\ UNCHANGED lifetime
    /\ UNCHANGED perCall
    /\ op' = [op EXCEPT ![t] = "SMCCleanupCache"]
    /\ pc' = [pc EXCEPT ![t] = "cc_lock"]
    /\ nOps' = nOps + 1
    /\ UNCHANGED <<shared, key, keyCode, keyInfo, result, val, index, calls,
                   firstInsert, cachedAtStart, nullArg, infoResult>>

\* pthread_mutex_lock(&g_keyInfoCacheLock) in SMCCleanupCache
LockForCleanup(t) ==
    /\ ~crashed /\ pc[t] = "cc_lock"
    /\ UNCHANGED lifetime
    /\ UNCHANGED perCall
    /\ g_keyInfoCacheLock = NULL
    /\ g_keyInfoCacheLock' = t
    /\ pc' = [pc EXCEPT ![t] = "cc_destroy"]
    /\ UNCHANGED <<g_keyInfoCache, entries, g_cacheInitOnce, crashed,
                   op, key, keyCode, keyInfo, result, val, index, calls, history>>

\* A faulty variant of CacheIsNull: destroy_cache does not look whether
\* there is a map.
CacheIsNullNever(cache) == FALSE

\* if (g_keyInfoCache == NULL) return;
CacheIsNull(cache) == cache = NULL

\* destroy_cache() and the unlock: a present map is destroyed and the
\* pointer set to NULL; g_cacheInitOnce is left as it is.
destroy_cache(t) ==
    /\ ~crashed /\ pc[t] = "cc_destroy"
    /\ UNCHANGED perCall
    /\ IF CacheIsNull(g_keyInfoCache)
         THEN UNCHANGED <<g_keyInfoCache, entries, nDestroy>>
         ELSE /\ g_keyInfoCache' = NULL
              /\ entries' = EmptyMap
              /\ nDestroy' = nDestroy + 1
    /\ UNCHANGED <<nInit, answered>>
    /\ g_keyInfoCacheLock' = NULL
    /\ pc' = [pc EXCEPT ![t] = "done"]
    /\ firstInsert' = EmptyMap
    /\ cachedAtStart' = [u \in Threads |-> {}]
    /\ UNCHANGED <<g_cacheInitOnce, crashed,
                   op, key, keyCode, keyInfo, result, val, index, calls,
                   nOps, nullArg, infoResult>>

\* ------------------------------------------------------------------ return
\* The operation has returned and the caller's frame is gone.
Return(t) ==
    /\ ~crashed /\ pc[t] = "done"
    /\ UNCHANGED lifetime
    /\ pc' = [pc EXCEPT ![t] = "idle"]
    /\ op' = [op EXCEPT ![t] = NULL]
    /\ key' = [key EXCEPT ![t] = NullText]
    /\ keyCode' = [keyCode EXCEPT ![t] = <<0, 0>>]
    /\ keyInfo' = [keyInfo EXCEPT ![t] = ZeroKeyInfo]
    /\ result' = [result EXCEPT ![t] = InitialResult]
    /\ val' = [val EXCEPT ![t] = ZeroVal]
    /\ index' = [index EXCEPT ![t] = 0]
    /\ calls' = [calls EXCEPT ![t] = <<>>]
    /\ cachedAtStart' = [cachedAtStart EXCEPT ![t] = {}]
    /\ nullArg' = [nullArg EXCEPT ![t] = FALSE]
    /\ infoResult' = [infoResult EXCEPT ![t] = {}]
    /\ lastOutput' = [lastOutput EXCEPT ![t] = {}]
    /\ keyBefore' = [keyBefore EXCEPT ![t] = NullText]
    /\ UNCHANGED <<shared, nOps, firstInsert>>

\* One step of thread t.
Step(t) ==
    \/ CallGetKeyInfo(t) \/ PthreadOnce(t) \/ init_cache(t) \/ LockForGet(t)
    \/ CacheGet(t) \/ InfoCall(t) \/ LockForPut(t) \/ CacheInsert(t)
    \/ CallReadKey(t) \/ ReadKeyAfterInfo(t) \/ ReadCall(t)
    \/ CallWriteKey(t) \/ WriteKeyAfterInfo(t) \/ WriteCall(t)
    \/ CallGetKeyFromIndex(t) \/ IndexCall(t)
    \/ CallCleanupCache(t) \/ LockForCleanup(t) \/ destroy_cache(t)
    \/ Return(t)

Next == \E t \in Threads : Step(t)

\* Any number of threads calling the operations concurrently.
Spec == Init /\ [][Next]_vars

\* A single caller: the operations run one after the other.
SeqNext == Step("t1")

SeqSpec == Init /\ [][SeqNext]_vars

\* ------------------------------------------------------------- the codec
\* The characters the codec is run on: both ends and the middle of the
\* 8-bit range, and the characters of "TC0P".
CodecChars == {0, 48, 67, 80, 84, 127, 128, 255}

\* UInt32Char_t inputs: any four characters, terminated or not, and NULL.
CodecTexts ==
    {<<a, b, c, d, e>> : a \in CodecChars, b \in CodecChars, c \in CodecChars,
                         d \in CodecChars, e \in {0, 65}} \cup {NullText}

\* A caller about to run a text through the codec the way SMCReadKey does.
CodecInit ==
    /\ g_keyInfoCache = NULL
    /\ entries = EmptyMap
    /\ g_keyInfoCacheLock = NULL
    /\ g_cacheInitOnce = "init"
    /\ crashed = FALSE
    /\ pc = [t \in Threads |-> IF t = "t1" THEN "codec_encode" ELSE "idle"]
    /\ op = [t \in Threads |-> NULL]
    /\ \E text \in CodecTexts :
          key = [t \in Threads |-> IF t = "t1" THEN text ELSE NullText]
    /\ keyCode = [t \in Threads |-> <<0, 0>>]
    /\ keyInfo = [t \in Threads |-> ZeroKeyInfo]
    /\ result = [t \in Threads |-> InitialResult]
    /\ val = [t \in Threads |-> ZeroVal]
    /\ index = [t \in Threads |-> 0]
    /\ calls = [t \in Threads |-> <<>>]
    /\ nOps = 0
    /\ firstInsert = EmptyMap
    /\ cachedAtStart = [t \in Threads |-> {}]
    /\ nullArg = [t \in Threads |-> FALSE]
    /\ infoResult = [t \in Threads |-> {}]
    /\ lastOutput = [t \in Threads |-> {}]
    /\ keyBefore = [t \in Threads |-> NullText]
    /\ nInit = 0
    /\ nDestroy = 0
    /\ answered = {}

\* const UInt32 keyCode = FourCharCodeFromString(key);
CodecEncode(t) ==
    /\ pc[t] = "codec_encode"
    /\ keyCode' = [keyCode EXCEPT ![t] = FourCharCodeFromString(key[t])]
    /\ pc' = [pc EXCEPT ![t] = "codec_decode"]
    /\ UNCHANGED <<shared, op, key, keyInfo, result, val, index, calls,
                   history, perCall, lifetime>>

\* StringFromFourCharCode(keyCode, &val->key);
CodecDecode(t) ==
    /\ pc[t] = "codec_decode"
    /\ val' = [val EXCEPT ![t].key = StringFromFourCharCode(keyCode[t])]
    /\ pc' = [pc EXCEPT ![t] = "codec_done"]
    /\ UNCHANGED <<shared, op, key, keyCode, keyInfo, result, index, calls,
                   history, perCall, lifetime>>

CodecNext == CodecEncode("t1") \/ CodecDecode("t1")

\* The codec alone, on every text of CodecTexts.
CodecSpec == CodecInit /\ [][CodecNext]_vars

\* ------------------------------------------------------------ vocabulary
\* The commands of the requests thread t's invocation has issued so far.
Issued(t) == {calls[t][i].data8 : i \in 1..Len(calls[t])}

\* SMCGetKeyInfo has returned to thread t's SMCReadKey / SMCWriteKey with
\* success at both levels, or with a failure at either level.
InfoSucceeded(t) ==
    \E r \in infoResult[t] :
        r.kern_res = kIOReturnSuccess /\ r.smc_res = kSMCReturnSuccess
InfoFailed(t) ==
    \E r \in infoResult[t] :
        r.kern_res # kIOReturnSuccess \/ r.smc_res # kSMCReturnSuccess

\* ------------------------------------------------------------------ claims
\* C1: SMCWriteKey issues (or is about to issue) the "write key" transport
\* call only if SMCGetKeyInfo succeeded in that same call and the value's
\* dataSize and decoded dataType equal those of the metadata it returned;
\* if either differs, the call ends with the data-type-mismatch status and
\* has made no "write key" call.
C1_WriteOnlyOnMatch ==
    \A t \in Threads :
        op[t] = "SMCWriteKey" =>
          /\ (pc[t] = "wk_call" \/ SMC_CMD_WRITE_KEY \in Issued(t)) =>
                /\ InfoSucceeded(t)
                /\ val[t].dataSize = keyInfo[t].dataSize
                /\ FourCharCodeFromString(val[t].dataType) = keyInfo[t].dataType
          /\ ( /\ InfoSucceeded(t)
               /\ \/ val[t].dataSize # keyInfo[t].dataSize
                  \/ FourCharCodeFromString(val[t].dataType) # keyInfo[t].dataType ) =>
                /\ pc[t] = "done"
                /\ result[t].smc_res = kSMCReturnDataTypeMismatch
                /\ SMC_CMD_WRITE_KEY \notin Issued(t)

\* A write whose size matches and whose type alone differs was rejected.
C1_Witness ==
    \E t \in Threads :
        /\ op[t] = "SMCWriteKey" /\ pc[t] = "done" /\ InfoSucceeded(t)
        /\ val[t].dataSize = keyInfo[t].dataSize
        /\ FourCharCodeFromString(val[t].dataType) # keyInfo[t].dataType
        /\ result[t].smc_res = kSMCReturnDataTypeMismatch

\* C2: (one caller) after SMCCleanupCache has returned, a later operation
\* never crashes and never looks up in or inserts into an absent map: the
\* cache is there again when SMCGetKeyInfo reaches the map.
C2_ResetThenReuse ==
    /\ ~crashed
    /\ \A t \in Threads :
          pc[t] \in {"gki_get", "gki_put"} => g_keyInfoCache # NULL

\* C3: (several threads) whatever the interleaving of SMCCleanupCache with
\* SMCGetKeyInfo, no thread is at the map lookup or at the map insert while
\* the map is absent.
C3_CleanupConcurrentSafe ==
    \A t \in Threads :
        /\ pc[t] = "gki_get" => g_keyInfoCache = "map"
        /\ pc[t] = "gki_put" => g_keyInfoCache = "map"

\* C4: first writer wins: while the map is present it holds, for each key,
\* exactly the value of the first insert made for that key; no later insert
\* changes it.
C4_FirstWriterWins ==
    g_keyInfoCache # NULL =>
        /\ DOMAIN entries = DOMAIN firstInsert
        /\ \A k \in DOMAIN firstInsert : entries[k] = firstInsert[k]

\* A thread's own query succeeded with other metadata than the cache
\* retained for its key: its insert came second and was discarded.
C4_Witness ==
    \E t \in Threads :
        /\ op[t] = "SMCGetKeyInfo" /\ pc[t] = "done"
        /\ SMC_CMD_READ_KEY_INFO \in Issued(t)
        /\ result[t].kern_res = kIOReturnSuccess
        /\ result[t].smc_res = kSMCReturnSuccess
        /\ g_keyInfoCache # NULL
        /\ keyCode[t] \in DOMAIN entries
        /\ entries[keyCode[t]] # keyInfo[t]

\* C5: an SMCGetKeyInfo that begins when the key is populated, with no
\* SMCCleanupCache since, never goes to the transport, and returns success
\* with the metadata of the first population.
C5_CacheIdempotence ==
    \A t \in Threads :
        cachedAtStart[t] # {} =>
          /\ pc[t] \notin {"gki_call", "gki_lock2", "gki_put"}
          /\ SMC_CMD_READ_KEY_INFO \notin Issued(t)
          /\ (pc[t] \in {"rk_info", "wk_info"}
                \/ (pc[t] = "done" /\ op[t] = "SMCGetKeyInfo")) =>
                /\ result[t].kern_res = kIOReturnSuccess
                /\ result[t].smc_res = kSMCReturnSuccess
                /\ cachedAtStart[t] = {keyInfo[t]}

\* An SMCGetKeyInfo that began after the population has returned.
C5_Witness ==
    \E t \in Threads :
        /\ op[t] = "SMCGetKeyInfo" /\ pc[t] = "done"
        /\ cachedAtStart[t] # {}
        /\ calls[t] = <<>>

\* C6: a failed population is not cached.  The step in which the "read key
\* info" call fails at either level leaves the cache as it was (adding no
\* entry for the key) and returns from SMCGetKeyInfo with that failure
\* pair; no thread whose query failed is ever on the way to the insert; and
\* a lookup that finds no entry for the key goes on to the transport query.
C6_FailureNotCached ==
    /\ [][ \A t \in Threads :
             ( /\ pc[t] = "gki_call" /\ pc'[t] # "gki_call"
               /\ \/ result'[t].kern_res # kIOReturnSuccess
                  \/ result'[t].smc_res # kSMCReturnSuccess ) =>
                 /\ entries' = entries
                 /\ g_keyInfoCache' = g_keyInfoCache
                 /\ pc'[t] = IF op[t] = "SMCReadKey" THEN "rk_info"
                             ELSE IF op[t] = "SMCWriteKey" THEN "wk_info"
                             ELSE "done" ]_vars
    /\ [] ( \A t \in Threads :
              pc[t] \in {"gki_lock2", "gki_put"} =>
                 /\ result[t].kern_res = kIOReturnSuccess
                 /\ result[t].smc_res = kSMCReturnSuccess )
    /\ [][ \A t \in Threads :
             ( /\ pc[t] = "gki_get" /\ pc'[t] # "gki_get"
               /\ g_keyInfoCache # NULL
               /\ keyCode[t] \notin DOMAIN entries ) =>
                 pc'[t] = "gki_call" ]_vars

\* An SMCGetKeyInfo whose query failed at the protocol level alone has
\* returned, and the present cache holds no entry for its key.
C6_Witness ==
    \E t \in Threads :
        /\ op[t] = "SMCGetKeyInfo" /\ pc[t] = "done"
        /\ SMC_CMD_READ_KEY_INFO \in Issued(t)
        /\ result[t].kern_res = kIOReturnSuccess
        /\ result[t].smc_res = kSMCReturnKeyNotFound
        /\ g_keyInfoCache # NULL
        /\ keyCode[t] \notin DOMAIN entries

\* C7: once SMCGetKeyInfo has returned a failure to SMCReadKey, SMCReadKey
\* has returned exactly that status pair and has issued no "read key" call.
C7_ReadPropagatesInfoFailure ==
    \A t \in Threads :
        (op[t] = "SMCReadKey" /\ InfoFailed(t)) =>
          /\ pc[t] = "done"
          /\ infoResult[t] = {result[t]}
          /\ SMC_CMD_READ_KEY \notin Issued(t)

\* SMCReadKey has returned key-not-found from its info step.
C7_Witness ==
    \E t \in Threads :
        /\ op[t] = "SMCReadKey" /\ pc[t] = "done"
        /\ infoResult[t] = {[kern_res |-> kIOReturnSuccess,
                             smc_res |-> kSMCReturnKeyNotFound]}
        /\ result[t].smc_res = kSMCReturnKeyNotFound

\* Thread t's SMCWriteKey was rejected locally: its info step succeeded and
\* the value's size or decoded type differs from the metadata returned.
RejectedLocally(t) ==
    /\ op[t] = "SMCWriteKey" /\ InfoSucceeded(t)
    /\ \/ val[t].dataSize # keyInfo[t].dataSize
       \/ FourCharCodeFromString(val[t].dataType) # keyInfo[t].dataType

\* C8 as stated: a locally rejected SMCWriteKey has made no transport call
\* of any kind, cached key or not.
C8_RejectedMakesNoCall ==
    \A t \in Threads : RejectedLocally(t) => calls[t] = <<>>

\* C8 amended: a locally rejected SMCWriteKey has made no "write key" call
\* and at most one transport call, a "read key info" query; it has made no
\* transport call at all when the key was populated when it began (and the
\* cache was not reset since).
C8_RejectedMakesNoWriteCall ==
    \A t \in Threads :
        RejectedLocally(t) =>
          /\ SMC_CMD_WRITE_KEY \notin Issued(t)
          /\ Issued(t) \subseteq {SMC_CMD_READ_KEY_INFO}
          /\ Len(calls[t]) <= 1
          /\ cachedAtStart[t] # {} => calls[t] = <<>>

\* Both cases of a local rejection are there: one that began with the key
\* populated and made no call, one that paid for the metadata query.
C8_Witness ==
    /\ \E t \in Threads :
          /\ RejectedLocally(t) /\ pc[t] = "done"
          /\ cachedAtStart[t] # {} /\ calls[t] = <<>>
    /\ \E t \in Threads :
          /\ RejectedLocally(t) /\ pc[t] = "done"
          /\ Len(calls[t]) = 1

\* C9: when SMCReadKey has returned, the Value's dataSize is at most the
\* capacity of the byte buffer, and the buffer holds no more than that.
C9_DataSizeWithinBuffer ==
    \A t \in Threads :
        (op[t] = "SMCReadKey" /\ pc[t] = "done") =>
          /\ val[t].dataSize <= SMCBytesLen
          /\ Len(val[t].bytes) <= SMCBytesLen

\* C10: when SMCReadKey's info step succeeded and its "read key" call
\* failed at either level, SMCReadKey has returned a failure pair and the
\* Value holds the requested key text, the dataSize and the decoded
\* dataType of the metadata, and an all-zero byte buffer.
C10_FailedReadKeepsContext ==
    \A t \in Threads :
        ( /\ op[t] = "SMCReadKey" /\ pc[t] = "done" /\ InfoSucceeded(t)
          /\ \/ result[t].kern_res # kIOReturnSuccess
             \/ result[t].smc_res # kSMCReturnSuccess ) =>
          /\ SMC_CMD_READ_KEY \in Issued(t)
          /\ val[t].key = key[t]
          /\ val[t].dataSize = keyInfo[t].dataSize
          /\ val[t].dataType = StringFromFourCharCode(keyInfo[t].dataType)
          /\ val[t].bytes = ZeroBytes

\* A read call failed at the protocol level after a successful info step
\* that reported the type "flt ".
C10_Witness ==
    \E t \in Threads :
        /\ op[t] = "SMCReadKey" /\ pc[t] = "done" /\ InfoSucceeded(t)
        /\ result[t].kern_res = kIOReturnSuccess
        /\ result[t].smc_res = kSMCReturnKeyNotFound
        /\ val[t].key = TextTC0P
        /\ val[t].dataType = TextFlt

\* C11: when SMCGetKeyFromIndex, given a non-null output, has returned, its
\* result is the status pair of its transport call; if the call failed at
\* either level the caller's key text is as it was before the call, and if
\* it succeeded the text is the 4-character decoding of the identifier in
\* the response.
C11_IndexOutput ==
    \A t \in Threads :
        (op[t] = "SMCGetKeyFromIndex" /\ pc[t] = "done" /\ ~nullArg[t]) =>
          \E out \in lastOutput[t] :
             /\ result[t] = [kern_res |-> out.kern_res, smc_res |-> out.result]
             /\ IF out.kern_res # kIOReturnSuccess \/ out.result # kSMCReturnSuccess
                  THEN key[t] = keyBefore[t]
                  ELSE key[t] = StringFromFourCharCode(out.key)

\* A call failed at the protocol level alone although its response named
\* another key than the one in the caller's buffer, and a call succeeded.
C11_Witness ==
    /\ \E t \in Threads :
          /\ op[t] = "SMCGetKeyFromIndex" /\ pc[t] = "done"
          /\ result[t] = [kern_res |-> kIOReturnSuccess,
                          smc_res |-> kSMCReturnKeyNotFound]
          /\ \E out \in lastOutput[t] :
                StringFromFourCharCode(out.key) # keyBefore[t]
          /\ key[t] = TextF0Ac
    /\ \E t \in Threads :
          /\ op[t] = "SMCGetKeyFromIndex" /\ pc[t] = "done"
          /\ result[t] = SuccessResult
          /\ key[t] = TextTC0P

\* C12: an operation given a null pointer has returned at once with a
\* failure pair and without any transport call; the step that rejects the
\* argument goes straight from the call to the return and leaves the cache
\* pointer, the map, the mutex and the one-time guard untouched.
C12_NullArgsRejected ==
    /\ [] ( \A t \in Threads :
              nullArg[t] =>
                 /\ pc[t] = "done"
                 /\ calls[t] = <<>>
                 /\ lastOutput[t] = {}
                 /\ \/ result[t].kern_res # kIOReturnSuccess
                    \/ result[t].smc_res # kSMCReturnSuccess )
    /\ [][ \A t \in Threads :
             (~nullArg[t] /\ nullArg'[t]) =>
                 /\ pc[t] = "idle" /\ pc'[t] = "done"
                 /\ g_keyInfoCache' = g_keyInfoCache
                 /\ entries' = entries
                 /\ g_keyInfoCacheLock' = g_keyInfoCacheLock
                 /\ g_cacheInitOnce' = g_cacheInitOnce ]_vars

\* SMCReadKey was given a key and a null value, and SMCGetKeyInfo a null
\* output, before anything initialised the cache.
C12_Witness ==
    /\ \E t \in Threads :
          /\ op[t] = "SMCReadKey" /\ pc[t] = "done" /\ nullArg[t]
          /\ key[t] # NullText
    /\ \E t \in Threads :
          /\ op[t] = "SMCGetKeyInfo" /\ pc[t] = "done" /\ nullArg[t]
    /\ g_cacheInitOnce = "init"

\* The commands of the requests thread t's invocation has issued, in order.
Commands(t) == [i \in 1..Len(calls[t]) |-> calls[t][i].data8]

\* C13: no retries.  One invocation of SMCGetKeyInfo or SMCGetKeyFromIndex
\* issues at most one transport call; one of SMCReadKey or SMCWriteKey at
\* most one "read key info" followed by at most one "read key" or "write
\* key", the info call first; SMCCleanupCache issues none.
C13_NoRetries ==
    \A t \in Threads :
        /\ op[t] = "SMCGetKeyInfo" =>
              Commands(t) \in {<<>>, <<SMC_CMD_READ_KEY_INFO>>}
        /\ op[t] = "SMCGetKeyFromIndex" =>
              Commands(t) \in {<<>>, <<SMC_CMD_GET_KEY_FROM_INDEX>>}
        /\ op[t] = "SMCReadKey" =>
              Commands(t) \in {<<>>, <<SMC_CMD_READ_KEY_INFO>>, <<SMC_CMD_READ_KEY>>,
                               <<SMC_CMD_READ_KEY_INFO, SMC_CMD_READ_KEY>>}
        /\ op[t] = "SMCWriteKey" =>
              Commands(t) \in {<<>>, <<SMC_CMD_READ_KEY_INFO>>, <<SMC_CMD_WRITE_KEY>>,
                               <<SMC_CMD_READ_KEY_INFO, SMC_CMD_WRITE_KEY>>}
        /\ op[t] \in {NULL, "SMCCleanupCache"} => Commands(t) = <<>>

\* An SMCReadKey has returned the failure of its "read key" call after one
\* info call and one read call, and an SMCGetKeyInfo the failure of its
\* single query.
C13_Witness ==
    /\ \E t \in Threads :
          /\ op[t] = "SMCReadKey" /\ pc[t] = "done"
          /\ Commands(t) = <<SMC_CMD_READ_KEY_INFO, SMC_CMD_READ_KEY>>
          /\ result[t].kern_res = kIOReturnNotPrivileged
    /\ \E t \in Threads :
          /\ op[t] = "SMCGetKeyInfo" /\ pc[t] = "done"
          /\ Commands(t) = <<SMC_CMD_READ_KEY_INFO>>
          /\ result[t].smc_res = kSMCReturnKeyNotFound

\* C14: codec round trip.  For every text of four 8-bit characters the
\* identifier holds the first character in its most significant byte and
\* the fourth in its least significant one, and decoding the identifier
\* gives the four characters followed by a null terminator; "TC0P" encodes
\* to 0x54433050 (high half 0x5443 = 21571, low half 0x3050 = 12368) and
\* decodes back to "TC0P".
C14_CodecRoundTrip ==
    LET text == key["t1"]
        code == keyCode["t1"]
    IN  /\ (pc["t1"] \in {"codec_decode", "codec_done"} /\ text # NullText) =>
              /\ code[1] \div 256 = text[1]
              /\ code[1] % 256 = text[2]
              /\ code[2] \div 256 = text[3]
              /\ code[2] % 256 = text[4]
              /\ text = TextTC0P => code = <<21571, 12368>>
        /\ (pc["t1"] = "codec_done" /\ text # NullText) =>
              /\ val["t1"].key = <<text[1], text[2], text[3], text[4], 0>>
              /\ text = TextTC0P => val["t1"].key = TextTC0P

\* A text with characters above 127, a zero character inside and no
\* terminator of its own has gone through the codec.
C14_Witness ==
    /\ pc["t1"] = "codec_done"
    /\ key["t1"] = <<255, 128, 0, 84, 65>>
    /\ val["t1"].key = <<255, 128, 0, 84, 0>>

\* The positions at which a thread is executing SMCCall.
InTransport(t) == pc[t] \in {"gki_call", "rk_call", "wk_call", "gkfi_call"}

\* C15: a thread executing a transport call, from whichever operation,
\* does not hold the cache mutex.
C15_NoLockAcrossTransport ==
    \A t \in Threads : InTransport(t) => g_keyInfoCacheLock # t

\* While one thread is in its "read key info" transport call, the other
\* holds the mutex for its own lookup.
C15_Witness ==
    \E t \in Threads, u \in Threads :
        /\ t # u
        /\ pc[t] = "gki_call"
        /\ pc[u] = "gki_get"
        /\ g_keyInfoCacheLock = u

\* The positions of SMCGetKeyInfo after its pthread_once.
PastOnce(t) ==
    pc[t] \in {"gki_lock1", "gki_get", "gki_call", "gki_lock2", "gki_put"}

\* C16: one-time lazy initialisation.  init_cache runs at most once, and
\* exactly once by the time the guard is complete; at most one thread is
\* inside it, and only while the guard is running; no thread is past
\* pthread_once (on its way to the lookup) before the initialisation has
\* completed; never are two maps created.
C16_InitOnce ==
    /\ nInit <= 1
    /\ (nInit = 1) <=> (g_cacheInitOnce = "done")
    /\ Cardinality({t \in Threads : pc[t] = "gki_init"}) <= 1
    /\ (\E t \in Threads : pc[t] = "gki_init") <=> (g_cacheInitOnce = "running")
    /\ \A t \in Threads : PastOnce(t) => (g_cacheInitOnce = "done" /\ nInit = 1)

\* Two threads make their first SMCGetKeyInfo call together: one is inside
\* init_cache while the other waits at pthread_once.
C16_Witness ==
    \E t \in Threads, u \in Threads :
        /\ pc[t] = "gki_init"
        /\ pc[u] = "gki_once"
        /\ nInit = 0

\* C17: SMCCleanupCache on an absent cache (never initialised, or already
\* reset) destroys nothing, leaves the cache absent, releases the mutex and
\* returns; every destroy_cache leaves the cache absent and the mutex free;
\* no more maps are ever destroyed than were created, so none twice.
C17_CleanupIdempotent ==
    /\ [] (nDestroy <= nInit)
    /\ [][ \A t \in Threads :
             (pc[t] = "cc_destroy" /\ pc'[t] # "cc_destroy") =>
                /\ g_keyInfoCache' = NULL
                /\ g_keyInfoCacheLock' = NULL
                /\ pc'[t] = "done"
                /\ g_keyInfoCache = NULL =>
                      (nDestroy' = nDestroy /\ entries' = entries)
                /\ g_keyInfoCache # NULL => nDestroy' = nDestroy + 1 ]_vars

\* Two SMCCleanupCache calls have returned and one map was destroyed: one
\* of the two calls found the cache absent.
C17_Witness ==
    /\ \A t \in Threads : op[t] = "SMCCleanupCache" /\ pc[t] = "done"
    /\ nDestroy = 1
    /\ g_keyInfoCache = NULL
    /\ g_keyInfoCacheLock = NULL

\* C18: when SMCWriteKey has returned after its info step succeeded and
\* the value's size and decoded type matched the metadata, it has issued
\* exactly one "write key" call, its last, whose request carries the
\* identifier of the value's key, the value's dataSize and the value's
\* 32-byte buffer, and its result is the status pair of that call.
C18_MatchingWriteIsIssued ==
    \A t \in Threads :
        ( /\ op[t] = "SMCWriteKey" /\ pc[t] = "done" /\ InfoSucceeded(t)
          /\ val[t].dataSize = keyInfo[t].dataSize
          /\ FourCharCodeFromString(val[t].dataType) = keyInfo[t].dataType ) =>
          /\ Cardinality({i \in 1..Len(calls[t]) :
                            calls[t][i].data8 = SMC_CMD_WRITE_KEY}) = 1
          /\ LET request == calls[t][Len(calls[t])] IN
               /\ request.data8 = SMC_CMD_WRITE_KEY
               /\ request.key = FourCharCodeFromString(val[t].key)
               /\ request.dataSize = val[t].dataSize
               /\ request.bytes = val[t].bytes
               /\ Len(request.bytes) = SMCBytesLen
          /\ \E out \in lastOutput[t] :
               result[t] = [kern_res |-> out.kern_res, smc_res |-> out.result]

\* A matching write of non-zero bytes was issued and its transport-level
\* failure came back as the result.
C18_Witness ==
    \E t \in Threads :
        /\ op[t] = "SMCWriteKey" /\ pc[t] = "done" /\ InfoSucceeded(t)
        /\ SMC_CMD_WRITE_KEY \in Issued(t)
        /\ val[t].bytes = SomeBytes
        /\ result[t] = [kern_res |-> kIOReturnNotPrivileged,
                        smc_res |-> kSMCReturnSuccess]

\* C19: lock discipline and progress. The mutex has one holder at most
\* (g_keyInfoCacheLock names it), no thread that is idle or has returned
\* holds it, and, in finite form of "every invocation eventually returns",
\* whenever some invocation is still in progress some thread can take a
\* step. The code violates the progress part: an invocation that reaches
\* the lookup or the insert on the NULL map never returns.
C19_LockDisciplineAndProgress ==
    /\ \A t \in Threads :
         pc[t] \in {"idle", "done"} => g_keyInfoCacheLock # t
    /\ (\E t \in Threads : pc[t] \notin {"idle", "done"}) => ENABLED Next

\* C20: cache soundness. Every entry of the map is the keyInfo of the
\* response to a "read key info" call issued for that key which succeeded
\* at both levels; the map's contents change only by the insert of
\* SMCGetKeyInfo, which adds the caller's key and removes nothing, or by
\* destroy_cache, which is the only step that removes entries; the steps of
\* SMCReadKey, SMCWriteKey and SMCGetKeyFromIndex themselves leave it alone.
C20_InsertOrCleanupOnly ==
    entries' # entries =>
      \/ \E t \in Threads :
           /\ pc[t] = "gki_put"
           /\ DOMAIN entries' = DOMAIN entries \cup {keyCode[t]}
           /\ keyCode[t] \notin DOMAIN entries
           /\ \A k \in DOMAIN entries : entries'[k] = entries[k]
      \/ \E t \in Threads :
           /\ pc[t] = "cc_destroy" /\ op[t] = "SMCCleanupCache"
           /\ entries' = EmptyMap

C20_CacheSoundness ==
    /\ [](\A k \in DOMAIN entries : <<k, entries[k]>> \in answered)
    /\ [][C20_InsertOrCleanupOnly]_vars

\* SMCReadKey has returned after its metadata query put the key's entry
\* into the map, the other thread having put nothing there.
C20_Witness ==
    \E t \in Threads :
        /\ op[t] = "SMCReadKey" /\ pc[t] = "done"
        /\ SMC_CMD_READ_KEY_INFO \in Issued(t)
        /\ g_keyInfoCache # NULL
        /\ keyCode[t] \in DOMAIN entries
        /\ entries[keyCode[t]] = keyInfo[t]

====
